---- MODULE Spec2Model ----
(***************************************************************************)
(* Model of the motor WebAssembly runtime: the binary decoder of           *)
(* src/src/binary.rs (Module::parse, Section::parse and the per-section    *)
(* decoders, the LEB128 readers, find_start_func) and the compile-and-run  *)
(* driver of src/src/bin/motor.rs (main).                                  *)
(*                                                                         *)
(* Representation of machine integers.  TLC's integers are 32 bits wide,   *)
(* so a u32 x is held as the integer congruent to x modulo 2^32 that lies  *)
(* in -2^31 .. 2^31-1 (its two's-complement image): 0xFFFFFFFF is held as  *)
(* -1, and every u32 below 2^31 is held as itself.  U32Less compares in    *)
(* the unsigned order.  The i64 accumulator of the LEB128 reader is held   *)
(* as its 64 bits, least significant first, so that the narrowing casts    *)
(* (as u32, as i8, as u8) keep exactly the bits the code keeps.            *)
(***************************************************************************)
EXTENDS Integers, Sequences, FiniteSets, TLC

VARIABLES
    stream,     \* the bytes of the input file (f), never written
    pos,        \* the file cursor: number of bytes consumed so far
    pc,         \* where the program is
    sections,   \* Module::parse: `sections`
    cnt,        \* remaining iterations of the running `for _ in 0..count`
    inner,      \* remaining iterations of the nested loop (params, locals)
    entries,    \* the vector the running section decoder is filling
    cur,        \* the element under construction (FuncType, FunctionBody)
    magic_number, \* Module::parse: `magic_number`
    version,    \* Module::parse: `version`
    result,     \* what Module::parse returned (or "Running")
    log,        \* history: [id, from, len] of every section dispatched on
    fault,      \* history: the first failed read met while decoding
    mark,       \* history: cursor at the start of the running/last opcode loop
    lastBody,   \* history: the last FunctionBody returned and where it ended
    start_fn,   \* main: what find_start_func returned
    ip,         \* main: number of instructions of start_fn.code translated
    ops,        \* main: the assembler buffer
    outcome,    \* main: how the process ended (or "running")
    stages,     \* history: the stages of main entered so far, in order
    v,          \* varint harness: the u32 that was encoded
    out         \* varint harness: what parse_varuint32 returned

vars == <<stream, pos, pc, sections, cnt, inner, entries, cur, magic_number,
          version, result, log, fault, mark, lastBody, start_fn, ip, ops,
          outcome, stages, v, out>>

loopVars == <<cnt, inner, entries, cur>>
histVars == <<log, fault, mark, lastBody>>
mainVars == <<start_fn, ip, ops, outcome, stages>>
harnessVars == <<v, out>>

----------------------------------------------------------------------------
(* Bounds of the model. *)

\* longest stream body (after the 8 header bytes) enumerated byte by byte
MaxLen == 3
\* most section encodings concatenated into one stream
MaxSections == 3
\* the varint harness encodes every u32 in 0 .. MaxValue
MaxValue == 300

----------------------------------------------------------------------------
(* Bits and machine integers. *)

Byte == 0..255

Bit(b, i) == (b \div (2^i)) % 2

\* the seven payload bits of a LEB128 byte, least significant first
LowBits(byte) == [i \in 1..7 |-> Bit(byte, i - 1)]

RECURSIVE BitsToNat(_, _)
\* the natural number held in bits[1..n], bits[1] least significant (n <= 31)
BitsToNat(bits, n) ==
    IF n = 0 THEN 0 ELSE bits[n] * (2^(n - 1)) + BitsToNat(bits, n - 1)

\* `val as u32`: the low 32 bits, held as their two's-complement image
AsU32(bits) ==
    IF bits[32] = 1
    THEN (BitsToNat(bits, 31) - 2147483647) - 1
    ELSE BitsToNat(bits, 31)

\* `val as i8`: the low 8 bits as a signed byte
AsI8(bits) == BitsToNat(bits, 7) - 128 * bits[8]

\* `val as u8`: the low 8 bits as an unsigned byte
AsU8(bits) == BitsToNat(bits, 8)

\* a < b for a u32 a (two's-complement image) and a natural b < 2^31
U32Less(a, b) == a >= 0 /\ a < b

\* count - 1 on a non-zero u32
U32Dec(a) == IF a = (-2147483647) - 1 THEN 2147483647 ELSE a - 1

----------------------------------------------------------------------------------------------------------------------------------------
(* Reading from the file.  A read gives [ok, val, pos] or [ok, err, val,   *)
(* pos]; pos is the cursor after the read.  The result of a read is handed *)
(* to the operator that models the code after it, as Rust's try! hands     *)
(* the value on.                                                           *)

Ok(val, p) == [ok |-> TRUE, val |-> val, pos |-> p]
Bad(err, val, p) == [ok |-> FALSE, err |-> err, val |-> val, pos |-> p]

\* the cursor after n bytes were read at p
Advance(p, n) == p + n

\* f.read_exact(&mut buf) for a buffer of `n as usize` bytes at cursor p; a
\* length of 2^31 or more (held as a negative number) is past any file here
ReadExact(s, p, n) ==
    IF n >= 0 /\ n <= Len(s) - p
    THEN Ok(SubSeq(s, p + 1, p + n), Advance(p, n))
    ELSE Bad("IoError", 0, Len(s))

\* the little-endian u32 of four bytes
U32OfBytes(b) ==
    b[1] + 256 * b[2] + 65536 * b[3]
    + 16777216 * (IF b[4] >= 128 THEN b[4] - 256 ELSE b[4])

\* byteorder: u32 from the four bytes read
U32Read(r) == IF r.ok THEN Ok(U32OfBytes(r.val), r.pos) ELSE r

\* f.read_u32::<LittleEndian>()
ReadU32LE(s, p) == U32Read(ReadExact(s, p, 4))

\* leb128::read::signed, after the loop: sign-extend `result` to 64 bits
SignExtend(acc, shift, byte) ==
    [i \in 1..64 |->
        IF i <= Len(acc) THEN acc[i]
        ELSE IF shift < 64 /\ Bit(byte, 6) = 1 THEN 1 ELSE 0]

\* `result |= low_bits << shift` on the bits of an i64
OrShifted(acc, byte) ==
    IF Len(acc) + 7 > 64
    THEN SubSeq(acc \o LowBits(byte), 1, 64)
    ELSE acc \o LowBits(byte)

RECURSIVE SignedLoop(_, _, _, _)
\* leb128::read::signed: the loop.  acc holds the low min(shift, 64) bits of
\* `result`; bits shifted past bit 63 are lost, as `low_bits << shift` loses them.
SignedLoop(s, p, acc, shift) ==
    IF p >= Len(s) THEN Bad("DecodeError", 0, Len(s))
    ELSE IF shift = 63 /\ s[p + 1] # 0 /\ s[p + 1] # 127
    THEN Bad("DecodeError", 0, p + 1)
    ELSE IF s[p + 1] >= 128
    THEN SignedLoop(s, p + 1, OrShifted(acc, s[p + 1]), shift + 7)
    ELSE Ok(SignExtend(OrShifted(acc, s[p + 1]), shift + 7, s[p + 1]), p + 1)

\* leb128::read::signed(f): the i64 read, as its 64 bits
ReadSigned(s, p) == SignedLoop(s, p, <<>>, 0)

\* parse_varuint32: the match on the read
NarrowU32(r) == IF r.ok THEN Ok(AsU32(r.val), r.pos) ELSE r

\* parse_varint7: the match on the read
NarrowI8(r) == IF r.ok THEN Ok(AsI8(r.val), r.pos) ELSE r

\* parse_varuint1: the match on the read
NarrowU8(r) == IF r.ok THEN Ok(AsU8(r.val), r.pos) ELSE r

\* Section::parse_varuint32
parse_varuint32(s, p) == NarrowU32(ReadSigned(s, p))

\* Section::parse_varint7
parse_varint7(s, p) == NarrowI8(ReadSigned(s, p))

\* Section::parse_varuint1
parse_varuint1(s, p) == NarrowU8(ReadSigned(s, p))

----------------------------------------------------------------------------
(* The data model of binary.rs. *)

WASM_MAGIC == 1836278016
WASM_VERSION == 1
END_OPCODE == 11
OPC_RETURN == 15

\* the tagged variants of `enum Section`
Section(kind, e) ==
    CASE kind = "Type" -> [kind |-> "Type", entries |-> e]
      [] kind = "Function" -> [kind |-> "Function", types |-> e]
      [] kind = "Memory" -> [kind |-> "Memory", entries |-> e]
      [] kind = "Export" -> [kind |-> "Export", entries |-> e]
      [] kind = "Code" -> [kind |-> "Code", bodies |-> e]

Custom == [kind |-> "Custom"]
Start(index) == [kind |-> "Start", index |-> index]
Unknown(id) == [kind |-> "Unknown", id |-> id]

None == <<>>
Some(x) == <<x>>

NoCur == [form |-> 0, param_types |-> <<>>, body_size |-> 0, locals |-> <<>>,
          code |-> <<>>]
NoFault == [err |-> "None", at |-> 0]
NoBody == [set |-> FALSE, code |-> <<>>, size |-> 0, from |-> 0, to |-> 0]
Running == [kind |-> "Running"]

\* a faulty variant of PushSection: the section is pushed at the front
PushFront(secs, sec) == <<sec>> \o secs

\* sections.push(section.unwrap())
PushSection(secs, sec) == Append(secs, sec)

\* parse_value_type: the match on ty
ValueTypeOf(r) ==
    IF ~r.ok THEN r
    ELSE CASE r.val = -1 -> Ok("I32", r.pos)
           [] r.val = -2 -> Ok("I64", r.pos)
           [] r.val = -3 -> Ok("F32", r.pos)
           [] r.val = -4 -> Ok("F64", r.pos)
           [] OTHER -> Bad("InvalidValueType", r.val, r.pos)

\* Section::parse_value_type
parse_value_type(s, p) == ValueTypeOf(parse_varint7(s, p))

\* is b[i] a UTF-8 continuation byte in lo..hi
Cont(b, i, lo, hi) == i <= Len(b) /\ b[i] >= lo /\ b[i] <= hi

RECURSIVE Utf8Valid(_, _)
\* String::from_utf8(field_str).is_ok(), scanning from index i
Utf8Valid(b, i) ==
    IF i > Len(b) THEN TRUE
    ELSE
      CASE b[i] < 128 -> Utf8Valid(b, i + 1)
        [] b[i] >= 194 /\ b[i] <= 223 ->
             Cont(b, i + 1, 128, 191) /\ Utf8Valid(b, i + 2)
        [] b[i] = 224 ->
             Cont(b, i + 1, 160, 191) /\ Cont(b, i + 2, 128, 191)
             /\ Utf8Valid(b, i + 3)
        [] (b[i] >= 225 /\ b[i] <= 236) \/ b[i] = 238 \/ b[i] = 239 ->
             Cont(b, i + 1, 128, 191) /\ Cont(b, i + 2, 128, 191)
             /\ Utf8Valid(b, i + 3)
        [] b[i] = 237 ->
             Cont(b, i + 1, 128, 159) /\ Cont(b, i + 2, 128, 191)
             /\ Utf8Valid(b, i + 3)
        [] b[i] = 240 ->
             Cont(b, i + 1, 144, 191) /\ Cont(b, i + 2, 128, 191)
             /\ Cont(b, i + 3, 128, 191) /\ Utf8Valid(b, i + 4)
        [] b[i] >= 241 /\ b[i] <= 243 ->
             Cont(b, i + 1, 128, 191) /\ Cont(b, i + 2, 128, 191)
             /\ Cont(b, i + 3, 128, 191) /\ Utf8Valid(b, i + 4)
        [] b[i] = 244 ->
             Cont(b, i + 1, 128, 143) /\ Cont(b, i + 2, 128, 191)
             /\ Cont(b, i + 3, 128, 191) /\ Utf8Valid(b, i + 4)
        [] OTHER -> FALSE

\* the match on external_kind[0]
ExternalKind(k) ==
    CASE k = 0 -> "Function" [] k = 1 -> "Table"
      [] k = 2 -> "Memory" [] k = 3 -> "Global" [] OTHER -> "Invalid"

\* parse_export_entry: `let field_name = match String::from_utf8(..)` and Ok
ExportMake(field_str, k, index) ==
    IF ~index.ok THEN index
    ELSE IF ~Utf8Valid(field_str, 1) THEN Bad("Utf8Error", 0, index.pos)
    ELSE Ok([field_name |-> field_str, kind |-> ExternalKind(k),
             index |-> index.val], index.pos)

\* parse_export_entry: from the match on external_kind[0]
ExportKind(s, field_str, kind) ==
    IF ~kind.ok THEN kind
    ELSE IF ExternalKind(kind.val[1]) = "Invalid"
    THEN Bad("InvalidExternalKind", kind.val[1], kind.pos)
    ELSE ExportMake(field_str, kind.val[1], parse_varuint32(s, kind.pos))

\* parse_export_entry: from the read of external_kind
ExportName(s, str) ==
    IF ~str.ok THEN str ELSE ExportKind(s, str.val, ReadExact(s, str.pos, 1))

\* parse_export_entry: from the read of field_str
ExportLen(s, len) ==
    IF ~len.ok THEN len ELSE ExportName(s, ReadExact(s, len.pos, len.val))

\* Section::parse_export_entry
parse_export_entry(s, p) == ExportLen(s, parse_varuint32(s, p))

\* parse_resizable_limits: Ok(ResizableLimits { .. }) with a maximum
LimitsMax(initial, maximum) ==
    IF ~maximum.ok THEN maximum
    ELSE Ok([limits |-> [initial |-> initial, maximum |-> Some(maximum.val)]],
            maximum.pos)

\* parse_resizable_limits: from `let maximum`
LimitsInitial(s, flags, initial) ==
    IF ~initial.ok THEN initial
    ELSE IF flags = 1
    THEN LimitsMax(initial.val, parse_varuint32(s, initial.pos))
    ELSE Ok([limits |-> [initial |-> initial.val, maximum |-> None]],
            initial.pos)

\* parse_resizable_limits: from `let initial`
LimitsFlags(s, flags) ==
    IF ~flags.ok THEN flags
    ELSE LimitsInitial(s, flags.val, parse_varuint32(s, flags.pos))

\* Section::parse_memory_type (and parse_resizable_limits)
parse_memory_type(s, p) == LimitsFlags(s, parse_varuint1(s, p))

\* parse_local_entry: Ok(LocalEntry { .. })
LocalMake(count, ty) ==
    IF ~ty.ok THEN ty ELSE Ok([count |-> count, ty |-> ty.val], ty.pos)

\* parse_local_entry: from `let ty`
LocalCount(s, count) ==
    IF ~count.ok THEN count
    ELSE LocalMake(count.val, parse_value_type(s, count.pos))

\* Section::parse_local_entry
parse_local_entry(s, p) == LocalCount(s, parse_varuint32(s, p))

\* parse_func_type: Some(ty)
ReturnSome(ty) == IF ~ty.ok THEN ty ELSE Ok(Some(ty.val), ty.pos)

\* parse_func_type: `let return_type = if return_count > 0 { .. }`
ReturnCount(s, return_count) ==
    IF ~return_count.ok THEN return_count
    ELSE IF return_count.val > 0
    THEN ReturnSome(parse_value_type(s, return_count.pos))
    ELSE Ok(None, return_count.pos)

\* parse_func_type from `let return_count` on: the optional return type
parse_return_type(s, p) == ReturnCount(s, parse_varuint1(s, p))

\* a faulty variant of IsEnd: the body ends at the wrong opcode
IsEndWrong(byte) == byte = 0

\* `if buf[0] == 0x0b { break; }`
IsEnd(byte) == byte = END_OPCODE

----------------------------------------------------------------------------
(* Module::parse as a step machine.  One action per loop iteration: each   *)
(* runs from the top of an iteration to the top of the next iteration of   *)
(* the innermost loop then running (or to the return of Module::parse).    *)
(* The operators between the actions are the code after each read, given   *)
(* what was read.                                                          *)

noLoop == cnt' = 0 /\ inner' = 0 /\ entries' = <<>> /\ cur' = NoCur

\* a `try!` or `return Err(..)` that leaves Module::parse with the error of r
ParseFail(r) ==
    /\ pc' = "parse_returned"
    /\ pos' = r.pos
    /\ result' = [kind |-> "Err", err |-> r.err, val |-> r.val]
    /\ fault' = [err |-> r.err, at |-> pos]
    /\ sections' = <<>>
    /\ noLoop
    /\ UNCHANGED <<stream, magic_number, version, mainVars, harnessVars>>

\* the decoder goes on, at pcn, with the loop state given
Goto(pcn, p, c, i, e, k) ==
    /\ pc' = pcn
    /\ pos' = p
    /\ cnt' = c /\ inner' = i /\ entries' = e /\ cur' = k
    /\ UNCHANGED <<stream, sections, magic_number, version, result, fault,
                   mainVars, harnessVars>>

\* Section::parse returns Ok(Some(sec)); Module::parse pushes it and loops
SectionDone(sec, p) ==
    /\ pc' = "section"
    /\ pos' = p
    /\ sections' = PushSection(sections, sec)
    /\ noLoop
    /\ UNCHANGED <<stream, magic_number, version, result, fault, mainVars,
                   harnessVars>>

\* the end of one iteration of a section's `for _ in 0..count`: e is the
\* vector after the push
ElementDone(kind, pcn, e, p) ==
    IF U32Dec(cnt) = 0 THEN SectionDone(Section(kind, e), p)
    ELSE Goto(pcn, p, U32Dec(cnt), 0, e, NoCur)

\* a counted section, once its count is read
Counted(kind, pcn, count) ==
    IF ~count.ok THEN ParseFail(count)
    ELSE IF count.val = 0 THEN SectionDone(Section(kind, <<>>), count.pos)
    ELSE Goto(pcn, count.pos, count.val, 0, <<>>, NoCur)

\* a section that opens with a count: parse_type_section, parse_function_section,
\* parse_memory_section, parse_export_section, parse_code_section, to the loop
CountedSection(kind, pcn, p) == Counted(kind, pcn, parse_varuint32(stream, p))

\* parse_custom_section: after the read of `payload`
CustomPayload(payload) ==
    IF ~payload.ok THEN ParseFail(payload) ELSE SectionDone(Custom, payload.pos)

\* parse_custom_section: from `let mut payload`
CustomName(name, payload_len) ==
    IF ~name.ok THEN ParseFail(name)
    ELSE CustomPayload(ReadExact(stream, name.pos, payload_len))

\* parse_custom_section: from `let mut name`
CustomNameLen(name_len, payload_len) ==
    IF ~name_len.ok THEN ParseFail(name_len)
    ELSE CustomName(ReadExact(stream, name_len.pos, name_len.val), payload_len)

\* Section::parse_custom_section
parse_custom_section(p, payload_len) ==
    CustomNameLen(parse_varuint32(stream, p), payload_len)

\* parse_start_section: after the read of `index`
StartIndex(index) ==
    IF ~index.ok THEN ParseFail(index)
    ELSE SectionDone(Start(index.val), index.pos)

\* Section::parse_start_section
parse_start_section(p) == StartIndex(parse_varuint32(stream, p))

\* parse_unknown_section: after the read of `payload`
UnknownPayload(id, payload) ==
    IF ~payload.ok THEN ParseFail(payload)
    ELSE SectionDone(Unknown(id), payload.pos)

\* Section::parse_unknown_section
parse_unknown_section(p, id, payload_len) ==
    UnknownPayload(id, ReadExact(stream, p, payload_len))

\* Section::parse: `match id { ... }`
Dispatch(id, p, payload_len) ==
    CASE id = 0 -> parse_custom_section(p, payload_len)
      [] id = 1 -> CountedSection("Type", "func_type", p)
      [] id = 3 -> CountedSection("Function", "func_index", p)
      [] id = 7 -> CountedSection("Export", "export_entry", p)
      [] id = 8 -> parse_start_section(p)
      [] id = 5 -> CountedSection("Memory", "memory_type", p)
      [] id = 10 -> CountedSection("Code", "body", p)
      [] OTHER -> parse_unknown_section(p, id, payload_len)

\* the process dies in Module::parse: `.unwrap()` on a failed header read
HeaderPanic(r) ==
    /\ pc' = "aborted"
    /\ pos' = r.pos
    /\ outcome' = "panic"
    /\ fault' = [err |-> r.err, at |-> pos]
    /\ UNCHANGED <<stream, sections, loopVars, magic_number, version, result,
                   log, mark, lastBody, start_fn, ip, ops, stages,
                   harnessVars>>

\* a faulty variant of MagicOk: the magic number is not checked
MagicAny(m) == TRUE

\* `magic_number != 0x6d736100`, negated
MagicOk(m) == m = WASM_MAGIC

\* `version != 0x01`, negated
VersionOk(n) == n = WASM_VERSION

\* Module::parse: after the read of `magic_number`
MagicRead(r) ==
    IF ~r.ok THEN HeaderPanic(r)
    ELSE IF ~MagicOk(r.val)
    THEN ParseFail(Bad("BadMagic", r.val, r.pos)) /\ UNCHANGED <<log, mark, lastBody>>
    ELSE /\ pc' = "version"
         /\ pos' = r.pos
         /\ magic_number' = r.val
         /\ UNCHANGED <<stream, sections, loopVars, version, result,
                        histVars, mainVars, harnessVars>>

\* Module::parse: the magic number
ReadMagic ==
    /\ pc = "magic"
    /\ MagicRead(ReadU32LE(stream, pos))

\* Module::parse: after the read of `version`
VersionRead(r) ==
    IF ~r.ok THEN HeaderPanic(r)
    ELSE IF ~VersionOk(r.val)
    THEN ParseFail(Bad("UnsupportedVersion", r.val, r.pos))
         /\ UNCHANGED <<log, mark, lastBody>>
    ELSE /\ pc' = "section"
         /\ pos' = r.pos
         /\ version' = r.val
         /\ UNCHANGED <<stream, sections, loopVars, magic_number, result,
                        histVars, mainVars, harnessVars>>

\* Module::parse: the version
ReadVersion ==
    /\ pc = "version"
    /\ VersionRead(ReadU32LE(stream, pos))

\* Section::parse returns Ok(None) on `Err(_)` of the id read; Module::parse
\* breaks out of its loop and returns Ok(Module)
ReturnModule(id) ==
    /\ pc' = "parse_returned"
    /\ pos' = id.pos
    /\ result' = [kind |-> "Ok",
                  module |-> [magic_number |-> magic_number,
                              version |-> version,
                              sections |-> sections]]
    /\ fault' = IF pos < Len(stream) THEN [err |-> id.err, at |-> pos] ELSE fault
    /\ sections' = <<>>
    /\ noLoop
    /\ UNCHANGED <<stream, magic_number, version, log, mainVars, harnessVars>>

\* Section::parse: from the read of `payload_len`
SectionLen(id, payload_len) ==
    IF ~payload_len.ok THEN ParseFail(payload_len) /\ UNCHANGED log
    ELSE /\ log' = Append(log, [id |-> id, from |-> payload_len.pos,
                                len |-> payload_len.val])
         /\ Dispatch(id, payload_len.pos, payload_len.val)

\* Section::parse: from the match on the read of `id`
SectionId(id) ==
    IF ~id.ok THEN ReturnModule(id)
    ELSE SectionLen(id.val, parse_varuint32(stream, id.pos))

\* one iteration of the loop of Module::parse: Section::parse up to the first
\* element of a counted section, and the return of Ok(Module) when the id
\* cannot be read
SectionParse ==
    /\ pc = "section"
    /\ UNCHANGED <<mark, lastBody>>
    /\ SectionId(parse_varuint32(stream, pos))

\* parse_func_type: Ok(FuncType { .. }), and the push of the entry
FuncTypeMake(form, param_types, rt) ==
    IF ~rt.ok THEN ParseFail(rt)
    ELSE ElementDone("Type", "func_type",
                     Append(entries, [form |-> form,
                                      param_types |-> param_types,
                                      return_type |-> rt.val]), rt.pos)

\* parse_func_type from `let return_count` on
FinishFuncType(p, form, param_types) ==
    FuncTypeMake(form, param_types, parse_return_type(stream, p))

\* parse_func_type: from the parameter loop
FuncParamCount(form, param_count) ==
    IF ~param_count.ok THEN ParseFail(param_count)
    ELSE IF param_count.val = 0
    THEN FinishFuncType(param_count.pos, form, <<>>)
    ELSE Goto("param", param_count.pos, cnt, param_count.val, entries,
              [NoCur EXCEPT !.form = form])

\* parse_func_type: from `let param_count`
FuncForm(form) ==
    IF ~form.ok THEN ParseFail(form)
    ELSE FuncParamCount(form.val, parse_varuint32(stream, form.pos))

\* one iteration of the loop of parse_type_section: parse_func_type up to its
\* first parameter
FuncTypeStep ==
    /\ pc = "func_type"
    /\ UNCHANGED <<log, mark, lastBody>>
    /\ FuncForm(parse_varint7(stream, pos))

\* the parameter loop of parse_func_type: after the read of `ty`
ParamType(ty) ==
    IF ~ty.ok THEN ParseFail(ty)
    ELSE IF U32Dec(inner) = 0
    THEN FinishFuncType(ty.pos, cur.form, Append(cur.param_types, ty.val))
    ELSE Goto("param", ty.pos, cnt, U32Dec(inner), entries,
              [cur EXCEPT !.param_types = Append(@, ty.val)])

\* one iteration of the parameter loop of parse_func_type
ParamStep ==
    /\ pc = "param"
    /\ UNCHANGED <<log, mark, lastBody>>
    /\ ParamType(parse_value_type(stream, pos))

\* the loop of parse_function_section: after the read of `ty`
FuncIndex(ty) ==
    IF ~ty.ok THEN ParseFail(ty)
    ELSE ElementDone("Function", "func_index", Append(entries, ty.val), ty.pos)

\* one iteration of the loop of parse_function_section
FuncIndexStep ==
    /\ pc = "func_index"
    /\ UNCHANGED <<log, mark, lastBody>>
    /\ FuncIndex(parse_varuint32(stream, pos))

\* the loop of parse_memory_section: after parse_memory_type
MemoryEntry(entry) ==
    IF ~entry.ok THEN ParseFail(entry)
    ELSE ElementDone("Memory", "memory_type", Append(entries, entry.val),
                     entry.pos)

\* one iteration of the loop of parse_memory_section
MemoryTypeStep ==
    /\ pc = "memory_type"
    /\ UNCHANGED <<log, mark, lastBody>>
    /\ MemoryEntry(parse_memory_type(stream, pos))

\* the loop of parse_export_section: after parse_export_entry
ExportEntry(entry) ==
    IF ~entry.ok THEN ParseFail(entry)
    ELSE ElementDone("Export", "export_entry", Append(entries, entry.val),
                     entry.pos)

\* one iteration of the loop of parse_export_section
ExportEntryStep ==
    /\ pc = "export_entry"
    /\ UNCHANGED <<log, mark, lastBody>>
    /\ ExportEntry(parse_export_entry(stream, pos))

\* parse_function_body: from the locals loop
BodyLocalCount(body_size, local_count) ==
    IF ~local_count.ok THEN ParseFail(local_count) /\ UNCHANGED mark
    ELSE IF local_count.val = 0
    THEN /\ Goto("opcode", local_count.pos, cnt, 0, entries,
                 [NoCur EXCEPT !.body_size = body_size])
         /\ mark' = local_count.pos
    ELSE /\ Goto("local", local_count.pos, cnt, local_count.val, entries,
                 [NoCur EXCEPT !.body_size = body_size])
         /\ UNCHANGED mark

\* parse_function_body: from `let local_count`; _body_size is not used again
\* (cur.body_size keeps it as history)
BodySize(body_size) ==
    IF ~body_size.ok THEN ParseFail(body_size) /\ UNCHANGED mark
    ELSE BodyLocalCount(body_size.val, parse_varuint32(stream, body_size.pos))

\* one iteration of the loop of parse_code_section: parse_function_body up to
\* its first local entry, or to its opcode loop when it declares no locals
BodyStep ==
    /\ pc = "body"
    /\ UNCHANGED <<log, lastBody>>
    /\ BodySize(parse_varuint32(stream, pos))

\* the locals loop of parse_function_body: after parse_local_entry
LocalEntry(local) ==
    IF ~local.ok THEN ParseFail(local) /\ UNCHANGED mark
    ELSE IF U32Dec(inner) = 0
    THEN /\ Goto("opcode", local.pos, cnt, 0, entries,
                 [cur EXCEPT !.locals = Append(@, local.val)])
         /\ mark' = local.pos
    ELSE /\ Goto("local", local.pos, cnt, U32Dec(inner), entries,
                 [cur EXCEPT !.locals = Append(@, local.val)])
         /\ UNCHANGED mark

\* one iteration of the locals loop of parse_function_body
LocalStep ==
    /\ pc = "local"
    /\ UNCHANGED <<log, lastBody>>
    /\ LocalEntry(parse_local_entry(stream, pos))

\* a faulty variant of OpcodeRead: an opcode that is not the end marker is left
\* in the stream
OpcodeReadPeek(buf) ==
    IF ~buf.ok THEN ParseFail(buf) /\ UNCHANGED lastBody
    ELSE IF IsEnd(buf.val[1])
    THEN /\ lastBody' = [set |-> TRUE, code |-> cur.code,
                         size |-> cur.body_size, from |-> mark, to |-> buf.pos]
         /\ ElementDone("Code", "body",
                        Append(entries, [locals |-> cur.locals,
                                         code |-> cur.code]), buf.pos)
    ELSE /\ Goto("opcode", pos, cnt, 0, entries,
                 [cur EXCEPT !.code = Append(@, buf.val[1])])
         /\ UNCHANGED lastBody

\* the opcode loop of parse_function_body: after the read of `buf`
OpcodeRead(buf) ==
    IF ~buf.ok THEN ParseFail(buf) /\ UNCHANGED lastBody
    ELSE IF IsEnd(buf.val[1])
    THEN /\ lastBody' = [set |-> TRUE, code |-> cur.code,
                         size |-> cur.body_size, from |-> mark, to |-> buf.pos]
         /\ ElementDone("Code", "body",
                        Append(entries, [locals |-> cur.locals,
                                         code |-> cur.code]), buf.pos)
    ELSE /\ Goto("opcode", buf.pos, cnt, 0, entries,
                 [cur EXCEPT !.code = Append(@, buf.val[1])])
         /\ UNCHANGED lastBody

\* one iteration of the opcode loop of parse_function_body, and on the end
\* marker the return of the body to parse_code_section
OpcodeStep ==
    /\ pc = "opcode"
    /\ UNCHANGED <<log, mark>>
    /\ OpcodeRead(ReadExact(stream, pos, 1))

----------------
(* Module::find_start_func and main (bin/motor.rs). *)

RECURSIVE ScanStartFirst(_, _, _)
\* a faulty variant of ScanStart: the first Start section wins
ScanStartFirst(secs, i, start_idx) ==
    IF i > Len(secs) THEN start_idx
    ELSE ScanStartFirst(secs, i + 1,
                        IF secs[i].kind = "Start" /\ start_idx = None
                        THEN Some(secs[i].index) ELSE start_idx)

RECURSIVE ScanStart(_, _, _)
\* find_start_func: the loop over the sections, from section i on
ScanStart(secs, i, start_idx) ==
    IF i > Len(secs) THEN start_idx
    ELSE ScanStart(secs, i + 1,
                   IF secs[i].kind = "Start" THEN Some(secs[i].index)
                   ELSE start_idx)

RECURSIVE find_func_from(_, _, _)
\* Module::find_func: the loop over the sections, from section i on.
\* `bodies[idx]` panics when idx is not below bodies.len().
find_func_from(secs, i, idx) ==
    IF i > Len(secs) THEN [kind |-> "None"]
    ELSE IF secs[i].kind = "Code"
    THEN IF U32Less(idx, Len(secs[i].bodies))
         THEN [kind |-> "Some", body |-> secs[i].bodies[idx + 1]]
         ELSE [kind |-> "Panic"]
    ELSE find_func_from(secs, i + 1, idx)

\* Module::find_func
find_func(m, idx) == find_func_from(m.sections, 1, idx)

\* Module::find_start_func
find_start_func(m) ==
    LET start_idx == ScanStart(m.sections, 1, None) IN
    IF start_idx = None THEN [kind |-> "None"]
    ELSE find_func(m, start_idx[1])

\* the x86-64 `ret` that dynasm emits
RET == 195

\* a faulty variant of Supported: every opcode is translated
SupportedAll(insn) == TRUE

\* `match *insn { OPC_RETURN => .., _ => panic!(..) }`: the arm taken
Supported(insn) == insn = OPC_RETURN

\* main: `Module::parse(&mut f).unwrap()`, once parse has returned
UnwrapParse ==
    /\ pc = "parse_returned"
    /\ IF result.kind = "Ok"
       THEN /\ pc' = "find_start"
            /\ stages' = Append(stages, "find_start_func")
            /\ UNCHANGED outcome
       ELSE /\ pc' = "aborted"
            /\ outcome' = "panic"
            /\ UNCHANGED stages
    /\ UNCHANGED <<stream, pos, sections, loopVars, magic_number, version,
                   result, histVars, start_fn, ip, ops, harnessVars>>

\* main: `module.find_start_func().unwrap()`
FindStart ==
    /\ pc = "find_start"
    /\ LET r == find_start_func(result.module) IN
       /\ start_fn' = r
       /\ IF r.kind = "Some"
          THEN /\ pc' = "compile"
               /\ stages' = Append(stages, "compile")
               /\ UNCHANGED outcome
          ELSE /\ pc' = "aborted"
               /\ outcome' = "panic"
               /\ UNCHANGED stages
    /\ UNCHANGED <<stream, pos, sections, loopVars, magic_number, version,
                   result, histVars, ip, ops, harnessVars>>

\* main: one iteration of `for insn in &start_fn.code`
CompileStep ==
    /\ pc = "compile"
    /\ ip < Len(start_fn.body.code)
    /\ IF Supported(start_fn.body.code[ip + 1])
       THEN /\ ops' = Append(ops, RET)
            /\ ip' = ip + 1
            /\ UNCHANGED <<pc, outcome>>
       ELSE /\ pc' = "aborted"
            /\ outcome' = "panic"
            /\ UNCHANGED <<ops, ip>>
    /\ UNCHANGED <<stream, pos, sections, loopVars, magic_number, version,
                   result, histVars, start_fn, stages, harnessVars>>

\* main: `ops.finalize().unwrap()`, after the loop
Finalize ==
    /\ pc = "compile"
    /\ ip = Len(start_fn.body.code)
    /\ pc' = "finalized"
    /\ stages' = Append(stages, "finalize")
    /\ UNCHANGED <<stream, pos, sections, loopVars, magic_number, version,
                   result, histVars, start_fn, ip, ops, outcome, harnessVars>>

\* main: `entry_fn()`.  The buffer of a body with no code holds no `ret`:
\* control runs into whatever follows the entry, which is undefined.
Invoke ==
    /\ pc = "finalized"
    /\ pc' = "exited"
    /\ stages' = Append(stages, "invoke")
    /\ outcome' \in (IF ops = <<>> THEN {"returned", "fault"} ELSE {"returned"})
    /\ UNCHANGED <<stream, pos, sections, loopVars, magic_number, version,
                   result, histVars, start_fn, ip, ops, harnessVars>>

----------------------------------------------------------------------------
(* The input files. *)

Header == <<0, 97, 115, 109, 1, 0, 0, 0>>

\* files whose header is short or wrong
BadHeaders ==
    { <<>>, <<0, 97>>, <<0, 97, 115, 109>>, <<0, 97, 115, 109, 1, 0>>,
      <<1, 97, 115, 109, 1, 0, 0, 0>>, <<0, 97, 115, 237, 1, 0, 0, 0>>,
      <<109, 115, 97, 0, 1, 0, 0, 0>>, <<0, 97, 115>>,
      <<0, 97, 115, 109, 2, 0, 0, 0>>, <<0, 97, 115, 109, 0, 0, 0, 0>>,
      <<0, 97, 115, 109, 1, 0, 0, 128>>, <<0, 97, 115, 109, 1, 1, 0, 0, 8, 1, 0>> }

\* the bytes of the streams enumerated byte by byte
Alphabet == {0, 1, 8, 10, 11, 15, 127, 128}

RECURSIVE SeqsUpTo(_, _)
SeqsUpTo(A, n) ==
    IF n = 0 THEN {<<>>}
    ELSE LET P == SeqsUpTo(A, n - 1) IN P \cup {Append(q, a) : q \in P, a \in A}

\* section encodings that are concatenated
Core ==
    { <<0, 1, 0>>,                                   \* custom, empty name
      <<8, 1, 0>>,                                   \* start 0
      <<8, 1, 1>>,                                   \* start 1
      <<10, 5, 1, 3, 0, 15, 11>>,                    \* code: [return]
      <<10, 11, 2, 4, 0, 15, 15, 11, 3, 0, 1, 11>>,  \* code: [ret ret], [nop]
      <<10, 6, 1, 9, 1, 1, 127, 11>>,                \* code: one local, no code
      <<2, 1, 0>>,                                   \* import: not decoded
      <<3, 2, 1, 0>>,                                \* function: [0]
      <<1, 4, 1, 96, 0, 0>>,                         \* type: () -> ()
      <<128>> }                                      \* a cut varint

RECURSIVE Concats(_)
Concats(n) ==
    IF n = 0 THEN {<<>>}
    ELSE LET P == Concats(n - 1) IN P \cup {q \o f : q \in P, f \in Core}

\* section encodings that are decoded on their own
Single ==
    { <<1, 7, 1, 96, 2, 127, 127, 1, 127>>,          \* type: (i32 i32) -> i32
      <<1, 10, 2, 96, 1, 126, 0, 96, 0, 1, 124>>,    \* type: two entries
      <<1, 5, 1, 96, 1, 0, 0>>,                      \* type: bad value type
      <<3, 3, 2, 0, 1>>,                             \* function: [0, 1]
      <<5, 3, 1, 0, 1>>,                             \* memory: no maximum
      <<5, 7, 2, 1, 1, 2, 0, 3>>,                    \* memory: two entries
      <<7, 8, 1, 4, 109, 97, 105, 110, 0, 0>>,       \* export "main"
      <<7, 9, 2, 1, 97, 2, 0, 1, 98, 3, 1>>,         \* export: two entries
      <<7, 5, 1, 1, 255, 0, 0>>,                     \* export: bad UTF-8
      <<7, 5, 1, 1, 97, 4, 0>>,                      \* export: bad kind
      <<7, 5, 1, 2, 195, 169, 1, 0>>,                \* export: two-byte char
      <<0, 4, 1, 65, 66, 67, 8, 1, 0>>,              \* custom "A" + start
      <<10, 4, 1, 2, 0, 15>>,                        \* code: no end marker
      <<10, 9, 1, 7, 2, 1, 127, 2, 126, 15, 11>>,    \* code: two locals
      <<8, 1, 0, 10, 4, 1, 2, 0, 11>>,               \* start + code: no code
      <<8, 1, 64, 10, 5, 1, 3, 0, 15, 11>>,          \* start 64 read signed
      <<8, 1, 127>>,                                 \* start 0xFFFFFFFF
      <<128, 128, 128, 128, 128, 128, 128, 128, 128, 1>>,  \* overflowing id
      <<8, 128, 128, 128, 128, 128, 128, 128, 128, 128, 2, 0>>,
      <<8, 1, 128, 128, 128, 128, 8>>,               \* start 2^31
      <<8, 1, 0, 10, 6, 1, 63, 0, 15, 15, 11>>,      \* body_size 63
      <<8, 1, 0, 10, 6, 1, 4, 0, 15, 1, 11>> }       \* code: [return nop]

Streams ==
    BadHeaders
    \cup {Header \o b : b \in SeqsUpTo(Alphabet, MaxLen)}
    \cup {Header \o b : b \in Concats(MaxSections)}
    \cup {Header \o b : b \in Single}

NoOut == [ok |-> FALSE, err |-> "None", val |-> 0, pos |-> 0]

\* the state when main calls Module::parse on a file of S
InitOn(S) ==
    /\ stream \in S
    /\ pos = 0
    /\ pc = "magic"
    /\ sections = <<>>
    /\ cnt = 0 /\ inner = 0 /\ entries = <<>> /\ cur = NoCur
    /\ magic_number = 0 /\ version = 0
    /\ result = Running
    /\ log = <<>> /\ fault = NoFault /\ mark = 0 /\ lastBody = NoBody
    /\ start_fn = [kind |-> "Unset"]
    /\ ip = 0 /\ ops = <<>>
    /\ outcome = "running"
    /\ stages = <<"parse">>
    /\ v = 0 /\ out = NoOut

Init == InitOn(Streams)

Next ==
    \/ ReadMagic
    \/ ReadVersion
    \/ SectionParse
    \/ FuncTypeStep
    \/ ParamStep
    \/ FuncIndexStep
    \/ MemoryTypeStep
    \/ ExportEntryStep
    \/ BodyStep
    \/ LocalStep
    \/ OpcodeStep
    \/ UnwrapParse
    \/ FindStart
    \/ CompileStep
    \/ Finalize
    \/ Invoke

Spec == Init /\ [][Next]_vars

----------------------------------------------------------------------------
(* The varuint32 harness: a u32 is written as unsigned LEB128 and read     *)
(* back through Section::parse_varuint32.                                  *)

RECURSIVE EncodeU(_)
\* the unsigned LEB128 encoding of n: seven bits a byte, least significant
\* group first, the top bit set on every byte but the last
EncodeU(n) ==
    IF n < 128 THEN <<n>> ELSE <<128 + (n % 128)>> \o EncodeU(n \div 128)

\* the values encoded: every one up to MaxValue, and some near the byte borders
Values ==
    (0..MaxValue) \cup {8191, 8192, 16383, 16384, 2097151, 268435455,
                        2147483647}

\* what may follow the encoding in the stream
Tails == {<<>>, <<0>>, <<255, 1>>}

InitVarint ==
    /\ v \in Values
    /\ stream = <<>>
    /\ pos = 0
    /\ pc = "encode"
    /\ sections = <<>>
    /\ cnt = 0 /\ inner = 0 /\ entries = <<>> /\ cur = NoCur
    /\ magic_number = 0 /\ version = 0
    /\ result = Running
    /\ log = <<>> /\ fault = NoFault /\ mark = 0 /\ lastBody = NoBody
    /\ start_fn = [kind |-> "Unset"]
    /\ ip = 0 /\ ops = <<>>
    /\ outcome = "running"
    /\ stages = <<>>
    /\ out = NoOut

\* the stream is made: the encoding of v, and what follows it
Encode ==
    /\ pc = "encode"
    /\ \E tail \in Tails : stream' = EncodeU(v) \o tail
    /\ pc' = "varint"
    /\ UNCHANGED <<pos, sections, loopVars, magic_number, version, result,
                   histVars, mainVars, v, out>>

\* Section::parse_varuint32(f) on that stream
DecodeVaruint32 ==
    /\ pc = "varint"
    /\ out' = parse_varuint32(stream, pos)
    /\ pos' = out'.pos
    /\ pc' = "varint_done"
    /\ UNCHANGED <<stream, sections, loopVars, magic_number, version, result,
                   histVars, mainVars, v>>

NextVarint == Encode \/ DecodeVaruint32

SpecVarint == InitVarint /\ [][NextVarint]_vars

----------------------------------------------------------------------------
(* The claims. *)

LoopPcs == {"section", "func_type", "param", "func_index", "memory_type",
            "export_entry", "body", "local", "opcode"}
ParsePcs == {"magic", "version"} \cup LoopPcs

\* the little-endian u32 at bytes i+1 .. i+4 of the stream
WordAt(i) == U32OfBytes(SubSeq(stream, i + 1, i + 4))

\* C1: once the magic read is over, a stream whose first u32 is not
\* 0x6d736100 has given BadMagic carrying that u32 with exactly 4 bytes
\* consumed; once the version read is over, a stream with the right magic and a
\* second u32 other than 1 has given UnsupportedVersion carrying that u32 with
\* exactly 8 bytes consumed; in both cases no section was ever dispatched on or
\* collected.
C1_HeaderValidatedFirst ==
    /\ (Len(stream) >= 4 /\ WordAt(0) # WASM_MAGIC /\ pc # "magic")
         => /\ result = [kind |-> "Err", err |-> "BadMagic", val |-> WordAt(0)]
            /\ pos = 4
            /\ log = <<>> /\ sections = <<>> /\ pc \notin LoopPcs
    /\ (Len(stream) >= 8 /\ WordAt(0) = WASM_MAGIC /\ WordAt(4) # WASM_VERSION
        /\ pc \notin {"magic", "version"})
         => /\ result = [kind |-> "Err", err |-> "UnsupportedVersion",
                         val |-> WordAt(4)]
            /\ pos = 8
            /\ log = <<>> /\ sections = <<>> /\ pc \notin LoopPcs

\* C1 witness: a version other than 1 was rejected with section bytes still
\* unread behind the header
C1_Witness ==
    /\ result.kind = "Err" /\ result.err = "UnsupportedVersion"
    /\ Len(stream) > 8 /\ pos = 8

\* C2 (as claimed): when a read has failed while decoding, what Module::parse
\* returns is an Err, never Ok(Module).
C2_EveryErrorAborts ==
    (fault.err # "None" /\ result.kind # "Running") => result.kind = "Err"

\* C3 (as claimed): when a Custom section has just been decoded, the cursor
\* stands payload_len bytes past the end of the payload_len field.
C3_CustomConsumesPayloadLen ==
    (pc = "section" /\ log # <<>> /\ log[Len(log)].id = 0)
        => pos = log[Len(log)].from + log[Len(log)].len

\* C4 (as claimed): the unsigned LEB128 encoding of v decodes through
\* parse_varuint32 to v, and exactly the bytes of the encoding are consumed.
C4_VaruintRoundTrip ==
    pc = "varint_done"
        => out.ok /\ out.val = v /\ out.pos = Len(EncodeU(v))

\* the indices of the sections of a kind
Indices(secs, kind) == {i \in 1..Len(secs) : secs[i].kind = kind}
Max(S) == CHOOSE x \in S : \A y \in S : y <= x
Min(S) == CHOOSE x \in S : \A y \in S : x <= y

\* what the claim says find_start_func returns on the sections secs, when it
\* says anything
StartExpected(secs, got) ==
    LET S == Indices(secs, "Start")
        C == Indices(secs, "Code")
    IN  /\ (S = {} \/ C = {}) => got = [kind |-> "None"]
        /\ (S # {} /\ C # {} /\ secs[Max(S)].index >= 0
            /\ secs[Max(S)].index < Len(secs[Min(C)].bodies))
             => got = [kind |-> "Some",
                       body |-> secs[Min(C)].bodies[secs[Max(S)].index + 1]]

\* C5: find_start_func returns none without a Start section and without a
\* Code section; with both, and the index of the last Start section below the
\* number of bodies of the first Code section, it returns the body at that
\* index; and it leaves the Module as it was.
C5_FindStartFunc ==
    /\ [](start_fn.kind # "Unset"
            => StartExpected(result.module.sections, start_fn))
    /\ [][pc = "find_start" => result' = result]_vars

\* C5 witness: a module with two Start sections of different index whose
\* lookup gave a body
C5_Witness ==
    /\ start_fn.kind = "Some"
    /\ \E i, j \in Indices(result.module.sections, "Start") :
          /\ i < j
          /\ result.module.sections[i].index # result.module.sections[j].index

\* C6 (as claimed): the lookup never ends in a fault; a Start index that is
\* not below the number of bodies gives none or an error value.
C6_OutOfRangeGuarded ==
    start_fn.kind # "Unset" => start_fn.kind \in {"None", "Some", "Err"}

\* the Section variant that the claim gives to a section id
KindOfId(id) ==
    CASE id = 0 -> "Custom" [] id = 1 -> "Type" [] id = 3 -> "Function"
      [] id = 5 -> "Memory" [] id = 7 -> "Export" [] id = 8 -> "Start"
      [] id = 10 -> "Code" [] OTHER -> "Unknown"

\* C7: when Module::parse returns Ok(Module), its sections are the sections
\* dispatched on, one each, in stream order, an id outside 0,1,3,5,7,8,10
\* appearing as Unknown with that id; and a stream of just the magic and the
\* version gives Ok with no sections.
C7_SectionsInOrder ==
    /\ result.kind = "Ok"
         => /\ Len(result.module.sections) = Len(log)
            /\ \A i \in 1..Len(log) :
                  /\ result.module.sections[i].kind = KindOfId(log[i].id)
                  /\ KindOfId(log[i].id) = "Unknown"
                       => result.module.sections[i].id = log[i].id
    /\ (stream = Header /\ pc \notin ParsePcs)
         => result.kind = "Ok" /\ result.module.sections = <<>>

\* C7 witness: Ok(Module) with three sections of three kinds, the first of
\* them Unknown
C7_Witness ==
    /\ result.kind = "Ok"
    /\ Len(result.module.sections) = 3
    /\ result.module.sections[1].kind = "Unknown"
    /\ result.module.sections[2].kind = "Start"
    /\ result.module.sections[3].kind = "Code"

\* no end marker in the stream at bytes a+1 .. b
NoEnd(a, b) == \A i \in (a + 1)..b : stream[i] # END_OPCODE

\* C8: the code of a body returned by parse_function_body is the bytes from
\* the end of its local entries up to the first 0x0B, which is not part of it;
\* the cursor is left just after that 0x0B, whatever body_size said; and an
\* opcode loop with no 0x0B left in the stream ends only in an I/O error.
C8_BodyEndsAtEndMarker ==
    /\ [](lastBody.set
            => /\ lastBody.to > lastBody.from
               /\ lastBody.to <= Len(stream)
               /\ stream[lastBody.to] = END_OPCODE
               /\ NoEnd(lastBody.from, lastBody.to - 1)
               /\ lastBody.code
                    = SubSeq(stream, lastBody.from + 1, lastBody.to - 1)
               /\ \A i \in 1..Len(lastBody.code) :
                     lastBody.code[i] # END_OPCODE)
    /\ [][(pc = "opcode" /\ NoEnd(pos, Len(stream)))
            => \/ pc' = "opcode" /\ lastBody' = lastBody
               \/ result' = [kind |-> "Err", err |-> "IoError", val |-> 0]]_vars
    /\ [][lastBody' # lastBody => pos' = lastBody'.to]_vars

\* C8 witness: a body with code was returned whose body_size prefix claimed
\* more bytes than the whole file holds
C8_Witness ==
    /\ lastBody.set
    /\ lastBody.code # <<>>
    /\ lastBody.size > Len(stream)

\* the code of the start function
StartCode == start_fn.body.code

\* C9: the entry point is invoked only at the end of the run parse,
\* find_start_func, compile, finalize, invoke, with every byte of the start
\* function's code translated and every one of them RETURN; a run that panics
\* was neither finalized nor invoked, and when it panics in the compile loop
\* it does so at the first byte that is not RETURN; after a parse error or
\* without a start function nothing was emitted.
C9_NoPartialExecution ==
    /\ (\E i \in 1..Len(stages) : stages[i] \in {"finalize", "invoke"})
         => /\ SubSeq(stages, 1, 4)
                 = <<"parse", "find_start_func", "compile", "finalize">>
            /\ Len(stages) = 5 => stages[5] = "invoke"
            /\ Len(stages) <= 5
            /\ start_fn.kind = "Some"
            /\ ip = Len(StartCode)
            /\ Len(ops) = Len(StartCode)
            /\ \A i \in 1..Len(StartCode) : StartCode[i] = OPC_RETURN
    /\ outcome = "panic"
         => /\ \A i \in 1..Len(stages) : stages[i] \notin {"finalize", "invoke"}
            /\ start_fn.kind = "Some"
                 => /\ ip < Len(StartCode)
                    /\ StartCode[ip + 1] # OPC_RETURN
                    /\ \A i \in 1..ip : StartCode[i] = OPC_RETURN
                    /\ Len(ops) = ip
    /\ (result.kind = "Err" \/ start_fn.kind \in {"None", "Panic"})
         => ops = <<>> /\ (pc \notin ParsePcs => pc \in {"parse_returned", "aborted"})

\* C9 witness: the entry point was invoked on a start function of two
\* instructions
C9_Witness ==
    /\ pc = "exited"
    /\ stages[Len(stages)] = "invoke"
    /\ Len(StartCode) = 2

\* C10: the cursor never passes the end of the stream, and every iteration of
\* a loop of the decoder moves the cursor forward or ends Module::parse.
C10_EveryIterationConsumes ==
    /\ [](pos >= 0 /\ pos <= Len(stream))
    /\ [][(pc \in LoopPcs) => (pos' > pos \/ pc' = "parse_returned")]_vars

\* C10 witness: an element loop is running on a count that is larger than
\* the number of bytes in the file
C10_Witness ==
    /\ pc \in LoopPcs \ {"section"}
    /\ cnt # 0
    /\ ~U32Less(cnt, Len(stream) + 1)

====
